---- MODULE Spec2Model ----
(***************************************************************************)
(* rocket_prometheus: the PrometheusMetrics fairing/handler (src/lib.rs).  *)
(*                                                                         *)
(* The model has two parts that share one state:                           *)
(*  - composition: the process environment, the prometheus registries and  *)
(*    the PrometheusMetrics instances built over them (SpecCompose);       *)
(*  - instrumentation: one Rocket application, built as in                 *)
(*    tests/integration.rs, with requests in flight passing through        *)
(*    on_request, routing / the scrape handler and on_response (Spec);     *)
(*    SpecTimer repeats on_request, SpecScrape takes the scrape in steps   *)
(*    that the hooks of other workers interleave.                          *)
(* SpecStatus and SpecHistogram apply the status formatter and the         *)
(* histogram to their inputs.                                              *)
(*                                                                         *)
(* Text is modelled by TLA+ strings.  Durations are integers, in           *)
(* milliseconds; the histogram's bucket bounds are scaled the same way.    *)
(***************************************************************************)
EXTENDS Integers, Sequences, FiniteSets, Bags, TLC

VARIABLES
    env,          \* value of ROCKET_PROMETHEUS_NAMESPACE in the process environment
    registries,   \* every prometheus Registry of the process; 1 is the default registry
    instances,    \* every PrometheusMetrics built so far (clones share one entry)
    panicked,     \* an unwrap() in with_registry has panicked
    fairing,      \* the instance attached and mounted on the launched Rocket, 0 before liftoff
    clones,       \* the two PrometheusMetrics values Rocket holds: attached and mounted
    now,          \* the monotonic clock read by Instant::now(), in ms
    ticks,        \* how often the clock has advanced
    req,          \* the requests in flight: a bag of request records
    nreq,         \* requests dispatched so far
    name_counter, \* children of the application's NAME_COUNTER (label value -> count)
    done,         \* history: per label tuple, the requests whose on_response has returned
    scrapes,      \* history: scrape requests dispatched, and whether two ever overlapped
    result,       \* what the application's last Registry::register call returned
    status_code,  \* a u16 status code handed to StatusCode::from
    label,        \* the text as_str() produced for status_code, {} before the call
    hist,         \* one child of a HistogramVec
    observations  \* history: the values observed on `hist`, in order

vars == <<env, registries, instances, panicked, fairing, clones, now, ticks, req, nreq,
          name_counter, done, scrapes, result, status_code, label, hist, observations>>

compVars == <<env, registries, instances, panicked>>
hookVars == <<fairing, clones, now, ticks, req, nreq, name_counter, done, scrapes>>
auxVars == <<status_code, label, hist, observations>>

---------------------------------------------------------------------------
(* Bounds of the model. *)

MaxInstances == 2
MaxRequests == 2
MaxInFlight == 2
MaxTicks == 1
MaxObservations == 3

---------------------------------------------------------------------------
(* Status formatter. *)

CODE_DIGITS ==
       "100101102103104105106107108109110111112113114115116117118119"
    \o "120121122123124125126127128129130131132133134135136137138139"
    \o "140141142143144145146147148149150151152153154155156157158159"
    \o "160161162163164165166167168169170171172173174175176177178179"
    \o "180181182183184185186187188189190191192193194195196197198199"
    \o "200201202203204205206207208209210211212213214215216217218219"
    \o "220221222223224225226227228229230231232233234235236237238239"
    \o "240241242243244245246247248249250251252253254255256257258259"
    \o "260261262263264265266267268269270271272273274275276277278279"
    \o "280281282283284285286287288289290291292293294295296297298299"
    \o "300301302303304305306307308309310311312313314315316317318319"
    \o "320321322323324325326327328329330331332333334335336337338339"
    \o "340341342343344345346347348349350351352353354355356357358359"
    \o "360361362363364365366367368369370371372373374375376377378379"
    \o "380381382383384385386387388389390391392393394395396397398399"
    \o "400401402403404405406407408409410411412413414415416417418419"
    \o "420421422423424425426427428429430431432433434435436437438439"
    \o "440441442443444445446447448449450451452453454455456457458459"
    \o "460461462463464465466467468469470471472473474475476477478479"
    \o "480481482483484485486487488489490491492493494495496497498499"
    \o "500501502503504505506507508509510511512513514515516517518519"
    \o "520521522523524525526527528529530531532533534535536537538539"
    \o "540541542543544545546547548549550551552553554555556557558559"
    \o "560561562563564565566567568569570571572573574575576577578579"
    \o "580581582583584585586587588589590591592593594595596597598599"
    \o "600601602603604605606607608609610611612613614615616617618619"
    \o "620621622623624625626627628629630631632633634635636637638639"
    \o "640641642643644645646647648649650651652653654655656657658659"
    \o "660661662663664665666667668669670671672673674675676677678679"
    \o "680681682683684685686687688689690691692693694695696697698699"
    \o "700701702703704705706707708709710711712713714715716717718719"
    \o "720721722723724725726727728729730731732733734735736737738739"
    \o "740741742743744745746747748749750751752753754755756757758759"
    \o "760761762763764765766767768769770771772773774775776777778779"
    \o "780781782783784785786787788789790791792793794795796797798799"
    \o "800801802803804805806807808809810811812813814815816817818819"
    \o "820821822823824825826827828829830831832833834835836837838839"
    \o "840841842843844845846847848849850851852853854855856857858859"
    \o "860861862863864865866867868869870871872873874875876877878879"
    \o "880881882883884885886887888889890891892893894895896897898899"
    \o "900901902903904905906907908909910911912913914915916917918919"
    \o "920921922923924925926927928929930931932933934935936937938939"
    \o "940941942943944945946947948949950951952953954955956957958959"
    \o "960961962963964965966967968969970971972973974975976977978979"
    \o "980981982983984985986987988989990991992993994995996997998999"

(* u16::to_string: the decimal digits of code. *)
RECURSIVE to_string(_)
to_string(code) ==
    IF code < 10
    THEN SubSeq("0123456789", code + 1, code + 1)
    ELSE to_string(code \div 10) \o SubSeq("0123456789", (code % 10) + 1, (code % 10) + 1)

(* A from_code that knows every code below 1000. *)
from_code_below_1000(code) == code <= 999

(* rocket::http::Status::from_code(code) is Some(..): the range the comments
   of StatusCode::Standard and status_as_str state. *)
from_code(code) == 100 <= code /\ code <= 999

(* impl From<u16> for StatusCode *)
StatusCode_from(code) ==
    IF from_code(code)
    THEN [variant |-> "Standard", code |-> code]
    ELSE [variant |-> "NonStandard", s |-> to_string(code)]

(* What a slice that does not lie inside CODE_DIGITS yields: a panic of the
   checked slice, or whatever the unchecked one reads. *)
OutOfBounds == "<out of bounds>"

(* A lookup that takes the offset for a one-based position. *)
status_as_str_one_based(s) ==
    LET offset == ((s.code - 100) % 65536) * 3
    IN  IF 1 <= offset /\ offset + 2 <= Len(CODE_DIGITS)
        THEN SubSeq(CODE_DIGITS, offset, offset + 2)
        ELSE OutOfBounds

(* status_as_str: the three bytes of CODE_DIGITS at offset (code - 100) * 3;
   the subtraction is a u16 subtraction. *)
status_as_str(s) ==
    LET offset == ((s.code - 100) % 65536) * 3
    IN  IF offset + 3 <= Len(CODE_DIGITS)
        THEN SubSeq(CODE_DIGITS, offset + 1, offset + 3)
        ELSE OutOfBounds

(* StatusCode::as_str *)
as_str(sc) == IF sc.variant = "Standard" THEN status_as_str(sc) ELSE sc.s

(* The values of a u16. *)
Codes == 0..65535

(* The StatusCode values From<u16> can yield for code: the one above, and
   the owned string, which it takes whenever Rocket has no Status for the
   code (Status::from_code returns None). *)
StatusCodes(code) ==
    {StatusCode_from(code), [variant |-> "NonStandard", s |-> to_string(code)]}

(* StatusCode::from(status_code).as_str(), as on_liftoff and on_response
   call it; the label keeps the variant the text came from. *)
Format ==
    /\ label = {}
    /\ \E sc \in StatusCodes(status_code) :
          label' = {[variant |-> sc.variant, text |-> as_str(sc)]}
    /\ UNCHANGED <<compVars, hookVars, result, status_code, hist, observations>>

---------------------------------------------------------------------------
(* Metric primitives and registries (the prometheus crate, as this crate uses it). *)

(* Histogram bucket upper bounds (prometheus DEFAULT_BUCKETS, the bounds the
   expected scrape body lists), in ms. *)
DEFAULT_BUCKETS == <<5, 10, 25, 50, 100, 250, 500, 1000, 2500, 5000, 10000>>

(* A fresh histogram child: per-bucket counts (not cumulative), sum, count. *)
NewHistogram == [buckets |-> [i \in 1..Len(DEFAULT_BUCKETS) |-> 0], sum |-> 0, count |-> 0]

(* An observe whose buckets exclude their upper bound. *)
observe_exclusive(h, v) ==
    LET hit == {i \in 1..Len(DEFAULT_BUCKETS) : v < DEFAULT_BUCKETS[i]}
        idx == IF hit = {} THEN 0 ELSE CHOOSE i \in hit : \A j \in hit : i <= j
    IN  [buckets |-> [i \in 1..Len(DEFAULT_BUCKETS) |->
                        IF i = idx THEN h.buckets[i] + 1 ELSE h.buckets[i]],
         sum     |-> h.sum + v,
         count   |-> h.count + 1]

(* Histogram::observe(v): v falls into the first bucket whose bound is >= v,
   or into none of them (+Inf only). *)
observe(h, v) ==
    LET hit == {i \in 1..Len(DEFAULT_BUCKETS) : v <= DEFAULT_BUCKETS[i]}
        idx == IF hit = {} THEN 0 ELSE CHOOSE i \in hit : \A j \in hit : i <= j
    IN  [buckets |-> [i \in 1..Len(DEFAULT_BUCKETS) |->
                        IF i = idx THEN h.buckets[i] + 1 ELSE h.buckets[i]],
         sum     |-> h.sum + v,
         count   |-> h.count + 1]

(* The gathered (cumulative) count of bucket i; Len(DEFAULT_BUCKETS) + 1 is +Inf. *)
RECURSIVE cumulative(_, _)
cumulative(h, i) ==
    IF i = 0 THEN 0
    ELSE IF i > Len(DEFAULT_BUCKETS) THEN h.count
    ELSE cumulative(h, i - 1) + h.buckets[i]

(* A with_label_values that keeps no other child when it creates one. *)
with_label_values_replace(vec, t, zero) ==
    IF t \in DOMAIN vec.children
    THEN vec
    ELSE [vec EXCEPT !.children = (t :> zero)]

(* MetricVec::with_label_values: the child of the label tuple t, created with
   the value zero when the tuple is new. *)
with_label_values(vec, t, zero) ==
    IF t \in DOMAIN vec.children
    THEN vec
    ELSE [vec EXCEPT !.children = (t :> zero) @@ @]

(* Registry::new() appended to the process's registries. *)
Registry_new(regs, private) == Append(regs, [private |-> private, collectors |-> {}])

(* Registry::register: Err(AlreadyReg) when the name is taken. *)
CanRegister(reg, c) == \A d \in reg.collectors : d.name # c.name

(* A register that replaces the metric registered under the name. *)
register_overwrite(reg, c) ==
    [reg EXCEPT !.collectors = {d \in @ : d.name # c.name} \cup {c}]

register(reg, c) ==
    IF CanRegister(reg, c) THEN [reg EXCEPT !.collectors = @ \cup {c}] ELSE reg

(* The Result of Registry::register. *)
register_result(reg, c) == IF CanRegister(reg, c) THEN "Ok" ELSE "Err(AlreadyReg)"

---------------------------------------------------------------------------
(* Composition: PrometheusMetrics::new / with_registry / with_default_registry. *)

(* Values of the environment variable: absent, present but not unicode, or text. *)
EnvValues == {"<unset>", "<non-utf8>", "app"}

(* env::var(NAMESPACE_ENV_VAR).unwrap_or_else(|_| "rocket".into()) *)
Namespace(e) == IF e \in {"<unset>", "<non-utf8>"} THEN "rocket" ELSE e

(* The built-in metrics registered in the registry the caller passed, as
   the crate once did. *)
BuiltinRegistryShared(rocket_registry, registry) == registry

(* The registry with_registry registers the two built-in metrics in. *)
BuiltinRegistry(rocket_registry, registry) == rocket_registry

(* prometheus::default_registry(): the process-wide registry is the first
   of `registries`. *)
default_registry == 1

(* The composition state as one value, and its initial value: only the
   process-wide default registry exists. *)
World == [registries |-> registries, instances |-> instances, panicked |-> panicked]

EmptyWorld ==
    [registries |-> <<[private |-> FALSE, collectors |-> {}]>>,
     instances  |-> <<>>,
     panicked   |-> FALSE]

(* PrometheusMetrics::with_registry(registry) in environment e.  A collector
   records the instance whose metric it is (owner); 0 is the caller. *)
with_registry(w, e, registry) ==
    LET regs0 == Registry_new(w.registries, TRUE)
        rocket_registry == Len(regs0)
        namespace == Namespace(e)
        pm == Len(w.instances) + 1
        http_requests_total ==
            [name |-> namespace \o "_http_requests_total", kind |-> "counter", owner |-> pm]
        http_requests_duration_seconds ==
            [name |-> namespace \o "_http_requests_duration_seconds", kind |-> "histogram", owner |-> pm]
        target == BuiltinRegistry(rocket_registry, registry)
        ok1 == CanRegister(regs0[target], http_requests_total)
        regs1 == [regs0 EXCEPT ![target] = register(@, http_requests_total)]
        ok2 == CanRegister(regs1[target], http_requests_duration_seconds)
        regs2 == [regs1 EXCEPT ![target] = register(@, http_requests_duration_seconds)]
    IN  IF ~ok1 THEN [registries |-> regs0, instances |-> w.instances, panicked |-> TRUE]
        ELSE IF ~ok2 THEN [registries |-> regs1, instances |-> w.instances, panicked |-> TRUE]
        ELSE [registries |-> regs2,
              instances  |-> Append(w.instances,
                  [http_requests_total |-> [name |-> http_requests_total.name, children |-> <<>>],
                   http_requests_duration_seconds |->
                       [name |-> http_requests_duration_seconds.name, children |-> <<>>],
                   rocket_registry |-> rocket_registry,
                   custom_registry |-> registry]),
              panicked   |-> FALSE]

(* PrometheusMetrics::new() *)
new(w, e) ==
    LET regs == Registry_new(w.registries, FALSE)
    IN  with_registry([w EXCEPT !.registries = regs], e, Len(regs))

(* PrometheusMetrics::with_default_registry() *)
with_default_registry(w, e) == with_registry(w, e, default_registry)

(* An accessor that hands out the private registry. *)
registry_private(pm) == pm.rocket_registry

(* PrometheusMetrics::registry() *)
registry(pm) == pm.custom_registry

SetWorld(w) ==
    /\ registries' = w.registries
    /\ instances' = w.instances
    /\ panicked' = w.panicked

(* The metrics a caller registers by hand: two different metrics of one
   name, the name a built-in counter has under the default namespace. *)
CustomMetrics ==
    {[name |-> "rocket_http_requests_total", kind |-> "counter", owner |-> 0],
     [name |-> "rocket_http_requests_total", kind |-> "gauge", owner |-> 0]}

(* The registries the application holds a handle of. *)
CallerRegistries == {r \in 1..Len(registries) : ~registries[r].private}

(* The environment variable is set or removed. *)
SetEnv(v) ==
    /\ ~panicked
    /\ env' = v
    /\ UNCHANGED <<registries, instances, panicked, hookVars, result, auxVars>>

New ==
    /\ ~panicked /\ fairing = 0
    /\ Len(instances) < MaxInstances
    /\ SetWorld(new(World, env))
    /\ UNCHANGED <<env, hookVars, result, auxVars>>

WithRegistry(r) ==
    /\ ~panicked /\ fairing = 0
    /\ Len(instances) < MaxInstances
    /\ SetWorld(with_registry(World, env, r))
    /\ UNCHANGED <<env, hookVars, result, auxVars>>

WithDefaultRegistry ==
    /\ ~panicked /\ fairing = 0
    /\ Len(instances) < MaxInstances
    /\ SetWorld(with_default_registry(World, env))
    /\ UNCHANGED <<env, hookVars, result, auxVars>>

(* The application registers a metric of its own, registry.register(Box::new(..)),
   and keeps the Result. *)
Register(r, c) ==
    /\ ~panicked
    /\ registries' = [registries EXCEPT ![r] = register(@, c)]
    /\ result' = register_result(registries[r], c)
    /\ UNCHANGED <<env, instances, panicked, hookVars, auxVars>>

---------------------------------------------------------------------------
(* The application of tests/integration.rs and the requests it serves. *)

(* Option values: None is the empty set, Some(x) the singleton. *)
None == {}
Some(x) == {x}
Unwrap(o) == CHOOSE x \in o : TRUE

(* The mounted routes: hello, hello_post and the scrape route. *)
ScrapeRoute == [uri |-> "/metrics", method |-> "GET", segments |-> <<"metrics">>]

Routes ==
    {[uri |-> "/hello/<name>", method |-> "GET",  segments |-> <<"hello", "<name>">>],
     [uri |-> "/hello/<name>", method |-> "POST", segments |-> <<"hello", "<name>">>],
     ScrapeRoute}

(* The requests a client sends: those of test_basic, the scrape, and one
   that no route matches. *)
Requests ==
    {[raw |-> "/hello/foo", segments |-> <<"hello", "foo">>, method |-> "GET"],
     [raw |-> "/hello/bar", segments |-> <<"hello", "bar">>, method |-> "GET"],
     [raw |-> "/hello/bar", segments |-> <<"hello", "bar">>, method |-> "POST"],
     [raw |-> "/metrics",   segments |-> <<"metrics">>,      method |-> "GET"],
     [raw |-> "/nope",      segments |-> <<"nope">>,         method |-> "GET"]}

(* The status codes a routed handler or a catcher answers with. *)
ResponseCodes == {200, 404}

(* The amounts the clock advances by, in ms. *)
TickSteps == {7}

(* Rocket's router: the route whose method is the request's and whose
   segments match the path (a <dynamic> segment matches any text). *)
Matches(route, path, method) ==
    /\ route.method = method
    /\ Len(route.segments) = Len(path)
    /\ \A i \in 1..Len(route.segments) :
          \/ route.segments[i] = "<name>"
          \/ route.segments[i] = path[i]

route_of(path, method) ==
    LET ms == {r \in Routes : Matches(r, path, method)}
    IN  IF ms = {} THEN None ELSE Some(CHOOSE r \in ms : TRUE)

(* A request as Rocket hands it to the first fairing: its request-local
   cache is empty, no route is set, no response exists.  `first` and `last`
   are history: the instants of the first and of the latest on_request. *)
Received(q) ==
    [phase |-> "received", path |-> q.segments, raw |-> q.raw, method |-> q.method,
     timer |-> None, route |-> None, status |-> 0, headers |-> "", body |-> <<>>,
     first |-> None, last |-> None]

(* The requests in flight, and the bag with request r replaced or dropped. *)
InFlight == BagToSet(req)
Replace(r, r2) == (req (-) SetToBag({r})) (+) SetToBag({r2})
Drop(r) == req (-) SetToBag({r})
IsScrapeRequest(r) == route_of(r.path, r.method) = Some(ScrapeRoute)

---------------------------------------------------------------------------
(* impl Fairing for PrometheusMetrics *)

Ok200 == as_str(StatusCode_from(200))

(* A startup hook that pre-creates nothing. *)
on_liftoff_nothing(pm, routes) == pm

(* A startup hook that pre-creates the counter's tuples only. *)
on_liftoff_counter_only(pm, routes) ==
    [pm EXCEPT !.http_requests_total.children =
        @ @@ [t \in {<<r.uri, r.method, Ok200>> : r \in routes} |-> 0]]

(* on_liftoff: both metrics get the tuple (uri, method, "200") of every route. *)
on_liftoff(pm, routes) ==
    LET pre == {<<r.uri, r.method, Ok200>> : r \in routes}
    IN  [pm EXCEPT
           !.http_requests_total.children =
               @ @@ [t \in pre |-> 0],
           !.http_requests_duration_seconds.children =
               @ @@ [t \in pre |-> NewHistogram]]

(* An on_request that stores the current instant on every invocation. *)
on_request_overwrite(r, instant) == [r EXCEPT !.timer = Some(Some(instant))]

(* on_request: req.local_cache(|| TimerStart(Some(Instant::now()))); the
   closure runs only when the request's cache holds no TimerStart yet. *)
on_request(r, instant) ==
    [r EXCEPT !.timer = IF @ = None THEN Some(Some(instant)) ELSE @]

(* The endpoint label taken from the request's path instead of its route. *)
EndpointPath(r) == r.raw

(* The label values on_response computes for a routed request. *)
Endpoint(r) == Unwrap(r.route).uri

Labels(r) == <<Endpoint(r), r.method, as_str(StatusCode_from(r.status))>>

(* on_response without the early return: an unrouted request is counted
   under its path. *)
on_response_inc_unguarded(pm, r) ==
    LET t == <<IF r.route = None THEN r.raw ELSE Endpoint(r), r.method,
               as_str(StatusCode_from(r.status))>>
    IN  [pm EXCEPT !.http_requests_total =
            LET vec == with_label_values(@, t, 0)
            IN  [vec EXCEPT !.children[t] = @ + 1]]

(* on_response counting every routed request under the status "200", the
   label on_liftoff uses. *)
on_response_inc_status200(pm, r) ==
    IF r.route = None
    THEN pm
    ELSE LET t == <<Endpoint(r), r.method, Ok200>>
         IN  [pm EXCEPT !.http_requests_total =
                 LET vec == with_label_values(@, t, 0)
                 IN  [vec EXCEPT !.children[t] = @ + 1]]

(* An increment done as a separate read and write, the read taken before the
   hooks that are still running made theirs. *)
on_response_inc_stale_read(pm, r) ==
    IF r.route = None
    THEN pm
    ELSE [pm EXCEPT !.http_requests_total =
             LET vec == with_label_values(@, Labels(r), 0)
                 finished == IF Labels(r) \in DOMAIN done THEN done[Labels(r)].n ELSE 0
             IN  [vec EXCEPT !.children[Labels(r)] = finished + 1]]

(* on_response, first half: the early return and the counter increment. *)
on_response_inc(pm, r) ==
    IF r.route = None
    THEN pm
    ELSE [pm EXCEPT !.http_requests_total =
             LET vec == with_label_values(@, Labels(r), 0)
             IN  [vec EXCEPT !.children[Labels(r)] = @ + 1]]

(* An on_response whose cache default is the current instant: a request
   without a timer is observed with the duration 0. *)
on_response_observe_default_now(pm, r, instant) ==
    LET start == IF r.timer = None THEN instant ELSE Unwrap(Unwrap(r.timer))
    IN  [pm EXCEPT !.http_requests_duration_seconds =
            LET vec == with_label_values(@, <<Unwrap(r.route).uri, r.method, as_str(StatusCode_from(r.status))>>, NewHistogram)
            IN  [vec EXCEPT !.children[<<Unwrap(r.route).uri, r.method, as_str(StatusCode_from(r.status))>>] =
                     observe(@, instant - start)]]

(* An on_response that observes under the status label of startup, "200". *)
on_response_observe_status200(pm, r, instant) ==
    IF r.timer = None
    THEN pm
    ELSE LET t == <<Unwrap(r.route).uri, r.method, Ok200>>
         IN  [pm EXCEPT !.http_requests_duration_seconds =
                 LET vec == with_label_values(@, t, NewHistogram)
                 IN  [vec EXCEPT !.children[t] = observe(@, instant - Unwrap(Unwrap(r.timer)))]]

(* An on_response that observes the duration twice. *)
on_response_observe_twice(pm, r, instant) ==
    IF r.timer = None
    THEN pm
    ELSE [pm EXCEPT !.http_requests_duration_seconds =
             LET vec == with_label_values(@, Labels(r), NewHistogram)
                 d == instant - Unwrap(Unwrap(r.timer))
             IN  [vec EXCEPT !.children[Labels(r)] = observe(observe(@, d), d)]]

(* A start instant kept in one place for all requests: on_response reads the
   instant the latest on_request of any request in flight has stored. *)
StartTime_shared(r) ==
    LET starts == {Unwrap(o.timer) : o \in {q \in InFlight : q.timer # None}} \ {None}
    IN  IF starts = {} THEN None
        ELSE CHOOSE x \in starts : \A y \in starts : Unwrap(x) >= Unwrap(y)

(* on_response, second half: req.local_cache(|| TimerStart(None)) and the
   observation of the elapsed time when a start instant is cached. *)
StartTime(r) == IF r.timer = None THEN None ELSE Unwrap(r.timer)

on_response_observe(pm, r, instant) ==
    IF StartTime(r) = None
    THEN pm
    ELSE [pm EXCEPT !.http_requests_duration_seconds =
             LET vec == with_label_values(@, Labels(r), NewHistogram)
             IN  [vec EXCEPT !.children[Labels(r)] =
                      observe(@, instant - Unwrap(StartTime(r)))]]

---------------------------------------------------------------------------
(* impl Handler for PrometheusMetrics: the scrape. *)

(* Every metric name of the model, in the byte order Registry::gather sorts
   the metric families by. *)
SortedNames ==
    <<"app_http_requests_duration_seconds",
      "app_http_requests_total",
      "name_counter",
      "rocket_http_requests_duration_seconds",
      "rocket_http_requests_total">>

(* The gathered histogram of one label tuple: cumulative bucket counts, the
   last one being +Inf, the sum and the count. *)
gather_histogram(h) ==
    [buckets |-> [i \in 1..(Len(DEFAULT_BUCKETS) + 1) |-> cumulative(h, i)],
     sum     |-> h.sum,
     count   |-> h.count]

(* Collector::collect: the samples of a registered collector, per label tuple.
   A caller's metric is NAME_COUNTER (a vector, one child per name greeted)
   or a plain counter. *)
collect(c) ==
    IF c.owner = 0
    THEN IF c.name = "name_counter" THEN name_counter ELSE (<<>> :> 0)
    ELSE IF c.kind = "counter"
         THEN instances[c.owner].http_requests_total.children
         ELSE [t \in DOMAIN instances[c.owner].http_requests_duration_seconds.children |->
                  gather_histogram(instances[c.owner].http_requests_duration_seconds.children[t])]

(* A gather that names the built-in families after the namespace the
   environment holds when it runs. *)
gather_namespace_now(reg) ==
    LET live == {c \in reg.collectors : DOMAIN collect(c) # {}}
        names == SelectSeq(SortedNames, LAMBDA n : \E c \in live : c.name = n)
    IN  [i \in 1..Len(names) |->
            LET c == CHOOSE d \in live : d.name = names[i]
            IN  [name |-> IF c.owner = 0 THEN c.name
                          ELSE IF c.kind = "counter"
                               THEN Namespace(env) \o "_http_requests_total"
                               ELSE Namespace(env) \o "_http_requests_duration_seconds",
                 kind |-> c.kind, owner |-> c.owner, samples |-> collect(c)]]

(* Registry::gather: one family per collector that has samples, sorted by name. *)
gather(reg) ==
    LET live == {c \in reg.collectors : DOMAIN collect(c) # {}}
        names == SelectSeq(SortedNames, LAMBDA n : \E c \in live : c.name = n)
    IN  [i \in 1..Len(names) |->
            LET c == CHOOSE d \in live : d.name = names[i]
            IN  [name |-> c.name, kind |-> c.kind, owner |-> c.owner, samples |-> collect(c)]]

(* A handler that encodes the private registry before the custom one. *)
handle_builtin_first(pm) ==
    gather(registries[pm.rocket_registry]) \o gather(registries[pm.custom_registry])

(* Handler::handle: the custom registry is encoded first, the private one
   after it, into one buffer. *)
handle(pm) ==
    gather(registries[pm.custom_registry]) \o gather(registries[pm.rocket_registry])

(* The metric family Registry::gather makes of one collector: the samples it
   has when the gather calls its collect. *)
family(c) == [name |-> c.name, kind |-> c.kind, owner |-> c.owner, samples |-> collect(c)]

(* handle up to the middle of self.rocket_registry.gather(): the custom
   registry is gathered and encoded, and the gather of the private registry
   has collected c, the first collector its map yields. *)
handle_begin(pm, c) == gather(registries[pm.custom_registry]) \o <<family(c)>>

(* The rest of handle after handle_begin left `part`: the gather collects the
   remaining collectors of the private registry, drops the families without
   samples, sorts by name, and the families are encoded after the custom ones. *)
handle_end(pm, part) ==
    LET first == part[Len(part)]
        rest == {family(c) : c \in {d \in registries[pm.rocket_registry].collectors :
                                        d.name # first.name}}
        fams == {f \in {first} \cup rest : DOMAIN f.samples # {}}
        names == SelectSeq(SortedNames, LAMBDA n : \E f \in fams : f.name = n)
    IN  SubSeq(part, 1, Len(part) - 1)
            \o [i \in 1..Len(names) |-> CHOOSE f \in fams : f.name = names[i]]

---------------------------------------------------------------------------
(* History kept for the properties. *)

Count(f, t) == IF t \in DOMAIN f THEN f[t] ELSE 0

NoneDone == [n |-> 0, timed |-> 0]

DoneOf(t) == IF t \in DOMAIN done THEN done[t] ELSE NoneDone

IsScrape(r) == r.route = Some(ScrapeRoute)

---------------------------------------------------------------------------
(* The launched application. *)

(* The PrometheusMetrics value a constructor returned for instance i.  Its
   fields are handles: the metric vectors are named by the entry of
   `instances` that holds their children, the registries by their index. *)
Value(i) ==
    [http_requests_total            |-> i,
     http_requests_duration_seconds |-> i,
     rocket_registry                |-> instances[i].rocket_registry,
     custom_registry                |-> instances[i].custom_registry]

(* A clone that shares the metric vectors but holds registries of its own. *)
clone_own_registries(pm) ==
    [pm EXCEPT !.rocket_registry = default_registry, !.custom_registry = default_registry]

(* #[derive(Clone)]: every field is cloned, and the clone of a handle is a
   handle of the same vector or registry. *)
clone(pm) == pm

(* Liftoff: `.attach(prometheus.clone())` and `.mount("/metrics", prometheus)`
   for instance i; Rocket runs on_liftoff of the attached value once, before
   it serves the first request. *)
Liftoff(i) ==
    /\ ~panicked /\ fairing = 0
    /\ i \in 1..Len(instances)
    /\ LET prometheus == Value(i)
           attached == clone(prometheus)
       IN  /\ clones' = [attached |-> attached, mounted |-> prometheus]
           /\ fairing' = attached.http_requests_total
           /\ instances' = [instances EXCEPT ![attached.http_requests_total] = on_liftoff(@, Routes)]
    /\ UNCHANGED <<env, registries, panicked, now, ticks, req, nreq, name_counter, done, scrapes, result, auxVars>>

Tick(d) ==
    /\ fairing # 0
    /\ ticks < MaxTicks
    /\ now' = now + d
    /\ ticks' = ticks + 1
    /\ UNCHANGED <<compVars, fairing, clones, req, nreq, name_counter, done, scrapes, result, auxVars>>

(* A client's request reaches a free worker. *)
Dispatch(q) ==
    /\ fairing # 0
    /\ nreq < MaxRequests
    /\ BagCardinality(req) < MaxInFlight
    /\ req' = req (+) SetToBag({Received(q)})
    /\ nreq' = nreq + 1
    /\ scrapes' =
          IF IsScrapeRequest(Received(q))
          THEN [started |-> scrapes.started + 1,
                overlapped |-> scrapes.overlapped \/ \E o \in InFlight : IsScrapeRequest(o)]
          ELSE scrapes
    /\ UNCHANGED <<compVars, fairing, clones, now, ticks, name_counter, done, result, auxVars>>

(* The pre-routing hook runs, as Rocket runs it: once, before routing. *)
OnRequest(r) ==
    /\ r.phase = "received"
    /\ req' = Replace(r, [on_request(r, now) EXCEPT
                              !.phase = "started",
                              !.first = Some(now),
                              !.last = Some(now)])
    /\ UNCHANGED <<compVars, fairing, clones, now, ticks, nreq, name_counter, done, scrapes, result, auxVars>>

(* The pre-routing hook is invoked once more for a request it has seen. *)
OnRequestAgain(r) ==
    /\ r.phase = "started"
    /\ r.last # None
    /\ req' = Replace(r, [on_request(r, now) EXCEPT !.last = Some(now)])
    /\ UNCHANGED <<compVars, fairing, clones, now, ticks, nreq, name_counter, done, scrapes, result, auxVars>>

(* The defensive case of on_response: the request reaches routing without
   the pre-routing hook having run. *)
BypassOnRequest(r) ==
    /\ r.phase = "received"
    /\ req' = Replace(r, [r EXCEPT !.phase = "started"])
    /\ UNCHANGED <<compVars, fairing, clones, now, ticks, nreq, name_counter, done, scrapes, result, auxVars>>

(* Routing and the application's handler (or a catcher) answer with `code`;
   hello greets the name and counts it in NAME_COUNTER. *)
Respond(r, code) ==
    /\ r.phase = "started"
    /\ ~IsScrapeRequest(r)
    /\ LET route == route_of(r.path, r.method)
           greeted == route # None /\ r.method = "GET" /\ code = 200
           name == r.path[Len(r.path)]
       IN  /\ req' = Replace(r, [r EXCEPT !.phase = "responded", !.route = route,
                                          !.status = code, !.headers = "text/plain; charset=utf-8"])
           /\ name_counter' =
                 IF greeted THEN (<<name>> :> (Count(name_counter, <<name>>) + 1)) @@ name_counter
                 ELSE name_counter
    /\ UNCHANGED <<compVars, fairing, clones, now, ticks, nreq, done, scrapes, result, auxVars>>

(* A scrape handler that counts the scrape itself before it gathers. *)
HandleCountsItself(r) ==
    /\ r.phase = "started"
    /\ IsScrapeRequest(r)
    /\ LET r2 == [r EXCEPT !.route = Some(ScrapeRoute), !.status = 200,
                            !.headers = "text/plain; version=0.0.4; charset=utf-8"]
           counted == [instances EXCEPT ![fairing] = on_response_inc(@, r2)]
           builtin == gather(registries[counted[fairing].rocket_registry])
       IN  /\ instances' = counted
           /\ req' = Replace(r, [r2 EXCEPT !.phase = "responded",
                 !.body = gather(registries[counted[fairing].custom_registry])
                          \o [i \in 1..Len(builtin) |->
                                 IF builtin[i].kind = "counter"
                                 THEN [builtin[i] EXCEPT
                                          !.samples = counted[fairing].http_requests_total.children]
                                 ELSE builtin[i]]])
    /\ UNCHANGED <<env, registries, panicked, fairing, clones, now, ticks, nreq, name_counter, done, scrapes, result, auxVars>>

(* The scrape route's handler answers 200 with the encoded metrics. *)
Handle(r) ==
    /\ r.phase = "started"
    /\ IsScrapeRequest(r)
    /\ req' = Replace(r, [r EXCEPT !.phase = "responded", !.route = Some(ScrapeRoute),
                                   !.status = 200,
                                   !.headers = "text/plain; version=0.0.4; charset=utf-8",
                                   !.body = handle(clones.mounted)])
    /\ UNCHANGED <<compVars, fairing, clones, now, ticks, nreq, name_counter, done, scrapes, result, auxVars>>

(* The scrape handler while other workers run their hooks: it has gathered
   the custom registry and collected one collector of the private one. *)
HandleBegin(r, c) ==
    /\ r.phase = "started"
    /\ IsScrapeRequest(r)
    /\ c \in registries[clones.mounted.rocket_registry].collectors
    /\ req' = Replace(r, [r EXCEPT !.phase = "gathering",
                                   !.body = handle_begin(clones.mounted, c)])
    /\ UNCHANGED <<compVars, fairing, clones, now, ticks, nreq, name_counter, done, scrapes, result, auxVars>>

(* The scrape handler collects the rest and answers 200 with the encoded metrics. *)
HandleEnd(r) ==
    /\ r.phase = "gathering"
    /\ req' = Replace(r, [r EXCEPT !.phase = "responded", !.route = Some(ScrapeRoute),
                                   !.status = 200,
                                   !.headers = "text/plain; version=0.0.4; charset=utf-8",
                                   !.body = handle_end(clones.mounted, r.body)])
    /\ UNCHANGED <<compVars, fairing, clones, now, ticks, nreq, name_counter, done, scrapes, result, auxVars>>

(* A post-response hook that turns the response into a 500 when it counts. *)
OnResponseIncSetsStatus(r) ==
    /\ r.phase = "responded"
    /\ instances' = [instances EXCEPT ![fairing] = on_response_inc(@, r)]
    /\ req' = IF r.route = None THEN Drop(r)
              ELSE Replace(r, [r EXCEPT !.phase = "counted", !.status = 500])
    /\ UNCHANGED <<env, registries, panicked, fairing, clones, now, ticks, nreq, name_counter, done, scrapes, result, auxVars>>

(* The post-response hook up to the counter increment: it returns at once
   for a request without a route, and the request is complete. *)
OnResponseInc(r) ==
    /\ r.phase = "responded"
    /\ instances' = [instances EXCEPT ![fairing] = on_response_inc(@, r)]
    /\ req' = IF r.route = None THEN Drop(r) ELSE Replace(r, [r EXCEPT !.phase = "counted"])
    /\ UNCHANGED <<env, registries, panicked, fairing, clones, now, ticks, nreq, name_counter, done, scrapes, result, auxVars>>

(* The rest of the post-response hook; the request is complete after it. *)
OnResponseObserve(r) ==
    /\ r.phase = "counted"
    /\ instances' = [instances EXCEPT ![fairing] = on_response_observe(@, r, now)]
    /\ done' = LET t == <<Unwrap(r.route).uri, r.method, to_string(r.status)>>
                   d == DoneOf(t)
               IN  (t :> [n     |-> d.n + 1,
                          timed |-> d.timed + (IF r.timer = None THEN 0 ELSE 1)]) @@ done
    /\ req' = Drop(r)
    /\ UNCHANGED <<env, registries, panicked, fairing, clones, now, ticks, nreq, name_counter, scrapes, result, auxVars>>

---------------------------------------------------------------------------
(* Specifications. *)

HooksInit ==
    /\ fairing = 0
    /\ clones = <<>>
    /\ now = 0
    /\ ticks = 0
    /\ req = EmptyBag
    /\ nreq = 0
    /\ name_counter = <<>>
    /\ done = <<>>
    /\ scrapes = [started |-> 0, overlapped |-> FALSE]

(* Nothing registered by hand, no status formatted, no value observed. *)
AuxInit ==
    /\ result = "none"
    /\ status_code = 0
    /\ label = {}
    /\ hist = NewHistogram
    /\ observations = <<>>

(* The process before any PrometheusMetrics is built. *)
InitCompose ==
    /\ env \in EnvValues
    /\ registries = EmptyWorld.registries
    /\ instances = EmptyWorld.instances
    /\ panicked = EmptyWorld.panicked
    /\ HooksInit
    /\ AuxInit

NextCompose ==
    \/ \E v \in EnvValues : SetEnv(v)
    \/ New
    \/ \E r \in CallerRegistries \ {default_registry} : WithRegistry(r)
    \/ WithDefaultRegistry
    \/ \E r \in CallerRegistries, c \in CustomMetrics : Register(r, c)
    \/ \E i \in 1..Len(instances) : Liftoff(i)

SpecCompose == InitCompose /\ [][NextCompose]_vars

(* The durations observed, in ms: below the first bound, on a bound,
   between two bounds, on the last bound and above it. *)
Durations == {0, 5, 7, 10000, 10001}

(* on_response observes a duration on the child of one label tuple. *)
Observe(v) ==
    /\ Len(observations) < MaxObservations
    /\ hist' = observe(hist, v)
    /\ observations' = Append(observations, v)
    /\ UNCHANGED <<compVars, hookVars, result, status_code, label>>

(* One histogram child and the sequences of observations made on it. *)
InitHistogram ==
    /\ env = "<unset>"
    /\ registries = EmptyWorld.registries
    /\ instances = EmptyWorld.instances
    /\ panicked = EmptyWorld.panicked
    /\ HooksInit
    /\ AuxInit

NextHistogram == \E v \in Durations : Observe(v)

SpecHistogram == InitHistogram /\ [][NextHistogram]_vars

(* The status formatter applied to every u16. *)
InitStatus ==
    /\ env = "<unset>"
    /\ registries = EmptyWorld.registries
    /\ instances = EmptyWorld.instances
    /\ panicked = EmptyWorld.panicked
    /\ HooksInit
    /\ result = "none"
    /\ status_code \in Codes
    /\ label = {}
    /\ hist = NewHistogram
    /\ observations = <<>>

NextStatus == Format

SpecStatus == InitStatus /\ [][NextStatus]_vars

(* The application of test_basic before it is launched:
   `let prometheus = PrometheusMetrics::new();` with the namespace variable
   unset, then `prometheus.registry().register(Box::new(NAME_COUNTER.clone()))`. *)
TestWorld ==
    LET w == new(EmptyWorld, "<unset>")
        r == registry(w.instances[Len(w.instances)])
    IN  [w EXCEPT !.registries[r] =
            register(@, [name |-> "name_counter", kind |-> "counter", owner |-> 0])]

Init ==
    /\ env = "<unset>"
    /\ registries = TestWorld.registries
    /\ instances = TestWorld.instances
    /\ panicked = TestWorld.panicked
    /\ HooksInit
    /\ AuxInit

Next ==
    \/ \E i \in 1..Len(instances) : Liftoff(i)
    \/ \E d \in TickSteps : Tick(d)
    \/ \E q \in Requests : Dispatch(q)
    \/ \E r \in InFlight : OnRequest(r)
    \/ \E r \in InFlight : BypassOnRequest(r)
    \/ \E r \in InFlight, code \in ResponseCodes : Respond(r, code)
    \/ \E r \in InFlight : Handle(r)
    \/ \E r \in InFlight : OnResponseInc(r)
    \/ \E r \in InFlight : OnResponseObserve(r)

Spec == Init /\ [][Next]_vars

(* The same application with on_request invoked any number of times per
   request; the requests are those of the application's own routes and the
   unrouted one. *)
NextTimer ==
    \/ \E i \in 1..Len(instances) : Liftoff(i)
    \/ \E d \in TickSteps : Tick(d)
    \/ \E q \in {x \in Requests : ~IsScrapeRequest(Received(x))} : Dispatch(q)
    \/ \E r \in InFlight : OnRequest(r)
    \/ \E r \in InFlight : OnRequestAgain(r)
    \/ \E r \in InFlight, code \in ResponseCodes : Respond(r, code)
    \/ \E r \in InFlight : OnResponseInc(r)
    \/ \E r \in InFlight : OnResponseObserve(r)

SpecTimer == Init /\ [][NextTimer]_vars

(* Every collector registered in a registry of the process. *)
Collectors == UNION {registries[k].collectors : k \in 1..Len(registries)}

(* The requests of the application with a scrape that other workers' hooks
   interleave: one greeting and the scrape. *)
ScrapeRequests ==
    {q \in Requests : q.method = "GET" /\ q.raw \in {"/hello/foo", "/metrics"}}

NextScrape ==
    \/ \E i \in 1..Len(instances) : Liftoff(i)
    \/ \E q \in ScrapeRequests : Dispatch(q)
    \/ \E r \in InFlight : OnRequest(r)
    \/ \E r \in InFlight : BypassOnRequest(r)
    \/ \E r \in InFlight, code \in ResponseCodes : Respond(r, code)
    \/ \E r \in InFlight, c \in Collectors : HandleBegin(r, c)
    \/ \E r \in InFlight : HandleEnd(r)
    \/ \E r \in InFlight : OnResponseInc(r)
    \/ \E r \in InFlight : OnResponseObserve(r)

SpecScrape == Init /\ [][NextScrape]_vars

---------------------------------------------------------------------------
(* Vocabulary of the properties. *)

(* The instance whose hooks and handler serve the application. *)
Served == instances[IF fairing = 0 THEN Len(instances) ELSE fairing]

Counter == Served.http_requests_total.children
Histogram == Served.http_requests_duration_seconds.children

HistCount(t) == IF t \in DOMAIN Histogram THEN Histogram[t].count ELSE 0
HistInf(t) ==
    IF t \in DOMAIN Histogram
    THEN gather_histogram(Histogram[t]).buckets[Len(DEFAULT_BUCKETS) + 1]
    ELSE 0

AllIdle == req = EmptyBag

(* The label tuples a mounted route can produce, and those of startup. *)
RouteTuples == {<<r.uri, r.method, to_string(c)>> : r \in Routes, c \in ResponseCodes}
StartupTuples == {<<r.uri, r.method, "200">> : r \in Routes}
ScrapeTuple == <<ScrapeRoute.uri, ScrapeRoute.method, "200">>
HelloGet200 == <<"/hello/<name>", "GET", "200">>

(* The requests between the counter increment and the end of on_response
   whose label tuple is t. *)
Counting(t) ==
    LET rs == {r \in InFlight : r.phase = "counted" /\ Labels(r) = t}
    IN  IF rs = {} THEN 0 ELSE BagCardinality([r \in rs |-> req[r]])

(* The responses of the scrape handler that are held by a request in flight. *)
Bodies == {r.body : r \in {o \in InFlight : IsScrape(o)}}

BuiltinNames(pm) == {pm.http_requests_total.name, pm.http_requests_duration_seconds.name}

(* The built-in series a scrape body lists. *)
BuiltinSeries(body) ==
    UNION {DOMAIN body[i].samples : i \in {j \in 1..Len(body) : body[j].owner # 0}}

---------------------------------------------------------------------------
(* C1: every endpoint label of the built-in counter and histogram is the URI
   template of a mounted route, every label tuple is (template, method,
   status) of a route, and so neither metric ever holds more than
   |routes| x |statuses| tuples, whatever paths were requested. *)
C1_CardinalityControl ==
    /\ \A t \in DOMAIN Counter \cup DOMAIN Histogram : t[1] \in {r.uri : r \in Routes}
    /\ DOMAIN Counter \subseteq RouteTuples
    /\ DOMAIN Histogram \subseteq RouteTuples
    /\ Cardinality(DOMAIN Counter) <= Cardinality(Routes) * Cardinality(ResponseCodes)
    /\ Cardinality(DOMAIN Histogram) <= Cardinality(Routes) * Cardinality(ResponseCodes)

(* Two completed GET requests, /hello/foo and /hello/bar, both counted under
   the one tuple of the template. *)
C1_Witness ==
    /\ AllIdle
    /\ {<<"foo">>, <<"bar">>} \subseteq DOMAIN name_counter
    /\ Count(Counter, HelloGet200) = 2
    /\ {t \in DOMAIN Counter : t[2] = "GET" /\ Counter[t] > 0} = {HelloGet200}

(* C2: the post-response hook of a request that matched no route changes no
   counter, no histogram and no set of label tuples. *)
C2_UnroutedNoop ==
    [][\A r \in InFlight :
          (r.phase = "responded" /\ r.route = None /\ CopiesIn(r, req') < CopiesIn(r, req))
              => (instances' = instances /\ req' = Drop(r))]_vars

(* An unrouted request has completed: a request was dispatched, nothing is in
   flight, and no routed request was ever completed or counted. *)
C2_Witness ==
    /\ fairing # 0 /\ nreq > 0 /\ AllIdle /\ done = <<>>
    /\ DOMAIN Counter = StartupTuples
    /\ \A t \in DOMAIN Counter : Counter[t] = 0

(* C3: for every label tuple the counter equals the number of completed
   requests with that tuple (plus those between the increment and the end of
   their hook); when all of them passed the pre-routing hook, the histogram's
   count and +Inf bucket equal that number as well. *)
C3_ExactCounting ==
    \A t \in DOMAIN Counter \cup DOMAIN Histogram \cup DOMAIN done :
        /\ Count(Counter, t) = DoneOf(t).n + Counting(t)
        /\ DoneOf(t).timed = DoneOf(t).n =>
              (HistCount(t) = DoneOf(t).n /\ HistInf(t) = DoneOf(t).n)

(* Two requests completed with the same tuple, both having passed on_request. *)
C3_Witness ==
    /\ AllIdle
    /\ DoneOf(HelloGet200) = [n |-> 2, timed |-> 2]
    /\ Counter[HelloGet200] = 2 /\ HistCount(HelloGet200) = 2

(* C4: after startup, until the first post-response hook updates a metric,
   counter and histogram hold exactly the tuples (template, method, "200") of
   the mounted routes, the scrape route included, all with value 0. *)
C4_StartupPrepopulation ==
    (fairing # 0 /\ done = <<>> /\ \A r \in InFlight : r.phase # "counted") =>
        /\ DOMAIN Counter = StartupTuples
        /\ DOMAIN Histogram = StartupTuples
        /\ ScrapeTuple \in DOMAIN Counter
        /\ \A t \in StartupTuples :
              Counter[t] = 0 /\ Histogram[t].count = 0 /\ HistInf(t) = 0

(* Liftoff has run and a routed request is about to enter on_response. *)
C4_Witness ==
    /\ fairing # 0 /\ done = <<>>
    /\ \E r \in InFlight : r.phase = "responded" /\ r.route # None
    /\ \A r \in InFlight : r.phase # "counted"

(* The value a scrape body reports for tuple t of the built-in counter, -1
   when the body has no such sample. *)
BodyCounter(body, t) ==
    LET idx == {i \in 1..Len(body) : body[i].owner # 0 /\ body[i].kind = "counter"}
    IN  IF idx = {} THEN -1
        ELSE LET f == body[CHOOSE i \in idx : TRUE]
             IN  IF t \in DOMAIN f.samples THEN f.samples[t] ELSE -1

Rank(n) == CHOOSE i \in 1..Len(SortedNames) : SortedNames[i] = n

(* C5 as stated: a scrape body lists built-in series only for label tuples
   that a completed (or already counted) request has hit; in particular none
   for the scrape route before a scrape has completed. *)
C5_OnlyHitSeries ==
    \A b \in Bodies : \A t \in BuiltinSeries(b) : DoneOf(t).n > 0 \/ Counting(t) > 0

(* C5, amended: a scrape body lists the built-in series of exactly the label
   tuples that startup pre-created or a request has hit; every mounted
   route's (template, method, "200"), the scrape route's included, is listed
   from the first scrape on, with the value 0 until a request hits it. *)
C5_StartupOrHitSeries ==
    \A b \in Bodies :
        /\ StartupTuples \subseteq BuiltinSeries(b)
        /\ \A t \in BuiltinSeries(b) :
              t \in StartupTuples \/ DoneOf(t).n > 0 \/ Counting(t) > 0
        /\ \A t \in StartupTuples :
              (DoneOf(t).n = 0 /\ Counting(t) = 0) => BodyCounter(b, t) = 0

(* The first scrape after a completed GET on /hello/<name>: the body reports
   1 for it and 0 for the POST route and for the scrape route. *)
C5_Witness ==
    /\ scrapes.started = 1
    /\ \E b \in Bodies :
          /\ BodyCounter(b, HelloGet200) = 1
          /\ BodyCounter(b, <<"/hello/<name>", "POST", "200">>) = 0
          /\ BodyCounter(b, ScrapeTuple) = 0

(* C6: the scrape handler changes no metric; with sequential scrapes the
   body of the k-th scrape reports k-1 for the scrape route's tuple, and
   once no scrape is in flight the counter equals the number of scrapes. *)
C6_ScrapeCountsAfterBody ==
    /\ [](/\ ~scrapes.overlapped =>
                \A b \in Bodies : BodyCounter(b, ScrapeTuple) = scrapes.started - 1
          /\ (fairing # 0 /\ \A r \in InFlight : ~IsScrapeRequest(r)) =>
                Count(Counter, ScrapeTuple) = scrapes.started)
    /\ [][\A r \in InFlight :
             (r.phase = "started" /\ IsScrapeRequest(r) /\ CopiesIn(r, req') < CopiesIn(r, req))
                 => instances' = instances]_vars

(* The second of two sequential scrapes holds a body that reports 1. *)
C6_Witness ==
    /\ ~scrapes.overlapped /\ scrapes.started = 2
    /\ \E b \in Bodies : BodyCounter(b, ScrapeTuple) = 1

(* C7 as stated: in every scrape body the built-in families come first, the
   request counter before the duration histogram, the custom ones after. *)
C7_BuiltinsFirst ==
    \A b \in Bodies : \A i, j \in 1..Len(b) :
        i < j =>
            /\ ~(b[i].owner = 0 /\ b[j].owner # 0)
            /\ ~(b[i].owner # 0 /\ b[j].owner # 0
                    /\ b[i].kind = "histogram" /\ b[j].kind = "counter")

(* C7, amended: in every scrape body the families of the custom registry
   come first and the built-in ones after them, and within each of the two
   parts the families are ordered by metric name, so the duration histogram
   precedes the request counter. *)
C7_CustomFirstByName ==
    \A b \in Bodies : \A i, j \in 1..Len(b) :
        i < j =>
            /\ ~(b[i].owner # 0 /\ b[j].owner = 0)
            /\ ((b[i].owner = 0) = (b[j].owner = 0)) => Rank(b[i].name) < Rank(b[j].name)
            /\ (b[i].owner # 0 /\ b[j].owner # 0) =>
                   (b[i].kind = "histogram" /\ b[j].kind = "counter")

(* A body with the custom family name_counter and both built-in families. *)
C7_Witness ==
    \E b \in Bodies :
        /\ Len(b) = 3
        /\ b[1].name = "name_counter" /\ b[1].owner = 0
        /\ b[2].owner # 0 /\ b[3].owner # 0

(* C10: for a routed request whose pre-routing hook never ran, the
   post-response hook does not panic, adds exactly 1 to the counter of
   (template, method, status) and leaves every histogram as it was. *)
C10_MissingTimer ==
    [][\A r \in InFlight :
          (r.timer = None /\ r.route # None /\ CopiesIn(r, req') < CopiesIn(r, req)) =>
              /\ r.phase = "responded" =>
                    /\ req' = Replace(r, [r EXCEPT !.phase = "counted"])
                    /\ Count(Counter', Labels(r)) = Count(Counter, Labels(r)) + 1
                    /\ \A t \in DOMAIN Counter' \ {Labels(r)} : Count(Counter', t) = Count(Counter, t)
                    /\ Histogram' = Histogram
                    /\ ~panicked'
              /\ r.phase = "counted" =>
                    /\ req' = Drop(r)
                    /\ Histogram' = Histogram /\ Counter' = Counter
                    /\ ~panicked']_vars

(* A routed request without a timer has completed: counted once, never observed. *)
C10_Witness ==
    \E t \in DOMAIN done :
        /\ done[t] = [n |-> 1, timed |-> 0]
        /\ Counting(t) = 0
        /\ Counter[t] = 1 /\ HistCount(t) = 0

(* C8: building an instance never panics on a duplicate name and leaves the
   metric names of every registry the caller holds unchanged; the two
   built-in metrics go to a fresh private registry of the new instance. *)
C8_SharedCustomRegistry ==
    [][/\ ~panicked'
       /\ Len(instances') > Len(instances) =>
             /\ \A r \in CallerRegistries :
                   {c.name : c \in registries'[r].collectors}
                       = {c.name : c \in registries[r].collectors}
             /\ LET pm == instances'[Len(instances')]
                IN  /\ pm.rocket_registry > Len(registries)
                    /\ registries'[pm.rocket_registry].private
                    /\ {c.name : c \in registries'[pm.rocket_registry].collectors}
                           = BuiltinNames(pm)]_vars

(* Two instances built over the process-wide default registry. *)
C8_Witness ==
    /\ ~panicked /\ Len(instances) >= 2
    /\ \E i, j \in 1..Len(instances) :
          /\ i # j
          /\ instances[i].custom_registry = default_registry
          /\ instances[j].custom_registry = default_registry
          /\ instances[i].rocket_registry # instances[j].rocket_registry

(* C9 as stated: a gather of the registry returned by registry() never
   contains a metric with one of the instance's built-in names. *)
C9_NoBuiltinName ==
    \A i \in 1..Len(instances) :
        LET g == gather(registries[registry(instances[i])])
        IN  \A k \in 1..Len(g) : g[k].name \notin BuiltinNames(instances[i])

(* C9, amended: the registry returned by registry() never holds a built-in
   metric of any instance; every collector in it, and every family it
   gathers, is one the caller registered, so a built-in name is visible
   through it only when the caller registered a metric under that name. *)
C9_NoBuiltinCollector ==
    \A i \in 1..Len(instances) :
        /\ ~registries[registry(instances[i])].private
        /\ \A c \in registries[registry(instances[i])].collectors : c.owner = 0
        /\ LET g == gather(registries[registry(instances[i])])
           IN  \A k \in 1..Len(g) : g[k].owner = 0

(* The caller has registered a metric under an instance's counter name in
   the registry that instance returns from registry(). *)
C9_Witness ==
    \E i \in 1..Len(instances) :
        /\ \E c \in registries[registry(instances[i])].collectors :
              c.name = instances[i].http_requests_total.name /\ c.owner = 0
        /\ \E c \in registries[instances[i].rocket_registry].collectors :
              c.name = instances[i].http_requests_total.name /\ c.owner = i

(* The sum of the observations of label tuple t in the histogram children h. *)
HistSum(h, t) == IF t \in DOMAIN h THEN h[t].sum ELSE 0

(* A step in which on_request ran for request r and left it as r2. *)
RanOnRequest(r, r2) ==
    /\ r.phase \in {"received", "started"}
    /\ CopiesIn(r, req') < CopiesIn(r, req)
    /\ r2 \in BagToSet(req')
    /\ CopiesIn(r2, req') > CopiesIn(r2, req)
    /\ r2.last # r.last
    /\ r2 = [r EXCEPT !.phase = r2.phase, !.timer = r2.timer, !.first = r2.first, !.last = r2.last]

(* A step in which the second half of on_response ran for request r. *)
RanObserve(r) == r.phase = "counted" /\ CopiesIn(r, req') < CopiesIn(r, req)

(* C11 as stated: every on_request stores the current instant, and the
   duration on_response observes is measured from the latest on_request. *)
C11_MeasuredFromLatest ==
    [][\A r \in InFlight :
          /\ \A r2 \in BagToSet(req') :
                RanOnRequest(r, r2) => (r2.timer = Some(Some(now)) /\ ~panicked')
          /\ (RanObserve(r) /\ r.last # None) =>
                HistSum(Histogram', Labels(r)) = HistSum(Histogram, Labels(r)) + (now - Unwrap(r.last))]_vars

(* C11, amended: on_request never fails and can run several times for a
   request; only the first run stores an instant, every later one leaves the
   stored instant as it is, and the duration on_response observes is
   measured from the first on_request. *)
C11_MeasuredFromFirst ==
    [][\A r \in InFlight :
          /\ \A r2 \in BagToSet(req') :
                RanOnRequest(r, r2) =>
                    /\ r2.timer = (IF r.timer = None THEN Some(Some(now)) ELSE r.timer)
                    /\ r2.timer = Some(r2.first)
                    /\ ~panicked'
          /\ (RanObserve(r) /\ r.first # None) =>
                HistSum(Histogram', Labels(r)) = HistSum(Histogram, Labels(r)) + (now - Unwrap(r.first))]_vars

(* on_request ran twice for a request, at different instants, and the
   request is in on_response with the instant of the first run cached. *)
C11_Witness ==
    \E r \in InFlight :
        /\ r.phase = "counted"
        /\ r.first # None /\ r.last # r.first
        /\ r.timer = Some(r.first)

(* The decimal numeral of a u16, digit by digit. *)
Digit(d) == SubSeq("0123456789", d + 1, d + 1)

Decimal(c) ==
    IF c < 10 THEN Digit(c)
    ELSE IF c < 100 THEN Digit(c \div 10) \o Digit(c % 10)
    ELSE IF c < 1000 THEN Digit(c \div 100) \o Digit((c \div 10) % 10) \o Digit(c % 10)
    ELSE IF c < 10000
         THEN Digit(c \div 1000) \o Digit((c \div 100) % 10) \o Digit((c \div 10) % 10)
              \o Digit(c % 10)
    ELSE Digit(c \div 10000) \o Digit((c \div 1000) % 10) \o Digit((c \div 100) % 10)
         \o Digit((c \div 10) % 10) \o Digit(c % 10)

(* C12: for every u16 status code the label text StatusCode::from(c).as_str()
   yields is the decimal numeral of c, whether it is read from the table
   (Standard) or is the owned string (NonStandard). *)
C12_StatusLabelDecimal ==
    \A l \in label : l.text = Decimal(status_code)

(* 200 was formatted through the table. *)
C12_Witness ==
    status_code = 200 /\ label = {[variant |-> "Standard", text |-> "200"]}

(* C13: the counter value a gather reports for a label tuple is the number
   of on_response invocations that have made their increment for it: those
   that have returned and those still running, however they interleave; no
   increment is lost. *)
C13_NoLostIncrements ==
    [](\A c \in registries[Served.rocket_registry].collectors :
        c.kind = "counter" =>
            LET samples == collect(c)
            IN  \A t \in DOMAIN samples \cup DOMAIN done :
                    Count(samples, t) = DoneOf(t).n + Counting(t))

(* Two on_response invocations for one label tuple are running at once,
   both past their increment, and the counter has both. *)
C13_Witness ==
    \E t \in DOMAIN Counter : Counting(t) = 2 /\ Counter[t] = 2

RECURSIVE SumSeq(_)
SumSeq(q) == IF q = <<>> THEN 0 ELSE q[1] + SumSeq(Tail(q))

(* C14: after the observations v1..vn the gathered histogram reports, for
   every bucket bound b, the number of vi <= b; the bucket counts do not
   decrease along the bounds; the +Inf bucket and the count are n; the sum is
   the sum of the vi. *)
C14_HistogramCumulative ==
    LET g == gather_histogram(hist)
        n == Len(observations)
        B == Len(DEFAULT_BUCKETS)
    IN  /\ \A i \in 1..B :
              g.buckets[i] = Cardinality({k \in 1..n : observations[k] <= DEFAULT_BUCKETS[i]})
        /\ \A i \in 1..B : g.buckets[i] <= g.buckets[i + 1]
        /\ g.buckets[B + 1] = n
        /\ g.count = n
        /\ g.sum = SumSeq(observations)

(* Three observations: one above every bound, one on a bound, one below. *)
C14_Witness ==
    /\ observations = <<10001, 5, 0>>
    /\ gather_histogram(hist).buckets[1] = 2
    /\ gather_histogram(hist).buckets[Len(DEFAULT_BUCKETS)] = 2

(* The response a request in flight carries. *)
Response(r) == [status |-> r.status, headers |-> r.headers, body |-> r.body]

(* A step in which on_response ran, in part or to its end, for request r. *)
RanOnResponse(r) ==
    r.phase \in {"responded", "counted"} /\ CopiesIn(r, req') < CopiesIn(r, req)

(* C15: on_response never fails and leaves the response as it was, for a
   request with or without a route, with or without a cached start instant,
   with a label tuple that exists or is new: the only thing it changes of a
   request is how far the hook has come, its table lookup stays inside
   CODE_DIGITS, and the request completes. *)
C15_ResponseUntouched ==
    [][\A r \in InFlight :
          RanOnResponse(r) =>
              /\ ~panicked'
              /\ StatusCode_from(r.status).variant = "Standard" =>
                     ((r.status - 100) % 65536) * 3 + 3 <= Len(CODE_DIGITS)
              /\ IF r.phase = "responded" /\ r.route # None
                 THEN /\ req' = Replace(r, [r EXCEPT !.phase = "counted"])
                      /\ \E r2 \in BagToSet(req') :
                            /\ CopiesIn(r2, req') > CopiesIn(r2, req)
                            /\ Response(r2) = Response(r)
                 ELSE req' = Drop(r)]_vars

(* on_response is running for a request that never passed on_request and
   whose label tuple it has just created; the response is the handler's. *)
C15_Witness ==
    \E r \in InFlight :
        /\ r.phase = "counted" /\ r.timer = None /\ r.status = 404
        /\ Labels(r) \notin StartupTuples
        /\ Counter[Labels(r)] = 1
        /\ Response(r) = [status |-> 404, headers |-> "text/plain; charset=utf-8", body |-> <<>>]

(* C16: within every registry the metric names are pairwise distinct; a
   register call for a name the registry already holds returns
   Err(AlreadyReg) and leaves the registry as it was, with the metric first
   registered under the name, and any other register call returns Ok and
   adds the metric. *)
C16_DuplicateNameRejected ==
    /\ [](\A i \in 1..Len(registries) : \A c, d \in registries[i].collectors :
              c.name = d.name => c = d)
    /\ [][\A r \in CallerRegistries, c \in CustomMetrics :
             Register(r, c) =>
                 IF \E d \in registries[r].collectors : d.name = c.name
                 THEN result' = "Err(AlreadyReg)" /\ registries' = registries
                 ELSE /\ result' = "Ok"
                      /\ registries'[r].collectors = registries[r].collectors \cup {c}]_vars

(* The last register call was refused, and the registry of an instance still
   holds the counter that was registered first under the name. *)
C16_Witness ==
    /\ result = "Err(AlreadyReg)"
    /\ \E i \in 1..Len(instances) :
          {c \in registries[registry(instances[i])].collectors :
               c.name = "rocket_http_requests_total"}
              = {[name |-> "rocket_http_requests_total", kind |-> "counter", owner |-> 0]}

(* C17: in every step, of startup, on_request, on_response or the scrape,
   every label tuple of a built-in metric stays, no counter value decreases,
   and no histogram's count or gathered bucket count decreases. *)
C17_MonotonePersistent ==
    [][instances' = instances \/ \A i \in 1..Len(instances) :
          LET c  == instances[i].http_requests_total.children
              c2 == instances'[i].http_requests_total.children
              h  == instances[i].http_requests_duration_seconds.children
              h2 == instances'[i].http_requests_duration_seconds.children
          IN  /\ DOMAIN c \subseteq DOMAIN c2
              /\ DOMAIN h \subseteq DOMAIN h2
              /\ \A t \in DOMAIN c : c[t] <= c2[t]
              /\ \A t \in DOMAIN h :
                    \/ h2[t] = h[t]
                    \/ /\ h[t].count <= h2[t].count
                       /\ \A b \in 1..(Len(DEFAULT_BUCKETS) + 1) :
                             cumulative(h[t], b) <= cumulative(h2[t], b)]_vars

(* A request has created a label tuple next to those of startup, after
   another tuple was counted and observed. *)
C17_Witness ==
    /\ DOMAIN Counter # StartupTuples
    /\ StartupTuples \subseteq DOMAIN Counter
    /\ Counter[HelloGet200] = 1 /\ HistCount(HelloGet200) = 1

(* The names of the built-in families a scrape of instance pm exposes. *)
ExposedBuiltinNames(pm) ==
    LET body == handle(pm)
    IN  {body[k].name : k \in {j \in 1..Len(body) : body[j].owner # 0}}

(* C18: a construction names both built-in metrics with the prefix the
   environment gives at that moment, "rocket" when the variable is unset or
   not unicode text; afterwards no step, a change of the variable included,
   changes the names of an instance, and a scrape of the launched instance
   exposes exactly the names it was built with. *)
C18_NamespaceResolvedOnce ==
    /\ [](fairing # 0 => ExposedBuiltinNames(instances[fairing]) = BuiltinNames(instances[fairing]))
    /\ [][/\ Len(instances') > Len(instances) =>
                LET pm == instances'[Len(instances')]
                    prefix == IF env \in {"<unset>", "<non-utf8>"} THEN "rocket" ELSE env
                IN  /\ pm.http_requests_total.name = prefix \o "_http_requests_total"
                    /\ pm.http_requests_duration_seconds.name
                          = prefix \o "_http_requests_duration_seconds"
          /\ \A i \in 1..Len(instances) :
                /\ i <= Len(instances')
                /\ BuiltinNames(instances'[i]) = BuiltinNames(instances[i])]_vars

(* The launched instance was built with the variable unset and exposes the
   prefix "rocket" although the variable now reads "app". *)
C18_Witness ==
    /\ fairing # 0 /\ env = "app"
    /\ ExposedBuiltinNames(instances[fairing])
          = {"rocket_http_requests_total", "rocket_http_requests_duration_seconds"}

(* C19: a step of on_response for a routed request with label tuple t
   changes nothing but t's counter (by 1, in the first half) and t's
   histogram child (in the second half); every other tuple, the pre-created
   (template, method, "200") of a request answered with another status
   included, keeps its counter value and its histogram child, also while
   other requests are in their hooks. *)
C19_TupleIsolation ==
    [][\A r \in InFlight :
          (RanOnResponse(r) /\ r.route # None) =>
              LET t == Labels(r)
              IN  /\ DOMAIN Counter' \ {t} = DOMAIN Counter \ {t}
                  /\ DOMAIN Histogram' \ {t} = DOMAIN Histogram \ {t}
                  /\ \A u \in DOMAIN Counter \ {t} : Counter'[u] = Counter[u]
                  /\ \A u \in DOMAIN Histogram \ {t} : Histogram'[u] = Histogram[u]
                  /\ t \in DOMAIN Counter'
                  /\ IF r.phase = "responded"
                     THEN Counter'[t] = Count(Counter, t) + 1 /\ Histogram' = Histogram
                     ELSE Counter' = Counter]_vars

(* Two requests on one route are in on_response at once, one answered 200
   and one 404: the new tuple has its increment, the pre-created one has the
   other request's, and only the completed 404 request was observed. *)
C19_Witness ==
    /\ Count(Counter, HelloGet200) = 1
    /\ Count(Counter, <<"/hello/<name>", "GET", "404">>) = 1
    /\ HistCount(<<"/hello/<name>", "GET", "404">>) = 1
    /\ HistCount(HelloGet200) = 0
    /\ \E r \in InFlight : r.phase = "counted" /\ Labels(r) = HelloGet200

(* C20: with several requests in flight, on_request changes the timer of its
   own request only, and on_response observes for a request the time from
   that request's own first on_request to now, which is never negative; a
   request whose on_request never ran is not observed, whatever the other
   requests in flight have stored. *)
C20_TimerIsolation ==
    [][\A r \in InFlight :
          /\ \A r2 \in BagToSet(req') :
                RanOnRequest(r, r2) => req' = Replace(r, r2)
          /\ RanObserve(r) =>
                IF r.first = None
                THEN Histogram' = Histogram
                ELSE /\ now - Unwrap(r.first) >= 0
                     /\ HistCount(Labels(r))' = HistCount(Labels(r)) + 1
                     /\ HistSum(Histogram', Labels(r))
                           = HistSum(Histogram, Labels(r)) + (now - Unwrap(r.first))]_vars

(* A request hooked at 0 has completed at 7 and was observed with 7, while
   another one, hooked at 7, is in on_response. *)
C20_Witness ==
    /\ \E r \in InFlight : r.phase = "counted" /\ r.first = Some(7)
    /\ \E t \in DOMAIN done :
          done[t].timed = 1 /\ HistCount(t) = 1 /\ HistSum(Histogram, t) = 7

(* C24 as stated: status_as_str is reached only with a code in [100, 999],
   its slice lies inside the 2700 bytes of CODE_DIGITS, every code outside
   [100, 999] takes the owned string, and every code inside [100, 999] takes
   the table. *)
C24_InRangeTakesTable ==
    \A l \in label :
        /\ l.variant = "Standard" =>
              /\ 100 <= status_code /\ status_code <= 999
              /\ 3 * (status_code - 100) + 3 <= Len(CODE_DIGITS)
        /\ ~(100 <= status_code /\ status_code <= 999) => l.variant = "NonStandard"
        /\ (100 <= status_code /\ status_code <= 999) => l.variant = "Standard"

(* C24, amended: CODE_DIGITS has 2700 bytes; status_as_str is reached only
   with a code in [100, 999], so code - 100 does not underflow and the slice
   [3 * (code - 100), 3 * (code - 100) + 3) lies inside the table; every code
   outside [100, 999] takes the owned string.  A code inside [100, 999] takes
   the table when Status::from_code has a Status for it and the owned string
   when it has none; both give the same text. *)
C24_LookupInsideTable ==
    /\ Len(CODE_DIGITS) = 2700
    /\ \A l \in label :
          /\ l.variant = "Standard" =>
                /\ 100 <= status_code /\ status_code <= 999
                /\ 0 <= 3 * (status_code - 100)
                /\ 3 * (status_code - 100) + 3 <= Len(CODE_DIGITS)
                /\ l.text # OutOfBounds
                /\ l.text = SubSeq(CODE_DIGITS, 3 * (status_code - 100) + 1,
                                               3 * (status_code - 100) + 3)
          /\ ~(100 <= status_code /\ status_code <= 999) => l.variant = "NonStandard"
          /\ (100 <= status_code /\ status_code <= 999) =>
                \A sc \in StatusCodes(status_code) : as_str(sc) = l.text

(* 999 was formatted through the table: the slice ends on the table's last byte. *)
C24_Witness ==
    /\ status_code = 999
    /\ label = {[variant |-> "Standard", text |-> "999"]}
    /\ 3 * (status_code - 100) + 3 = Len(CODE_DIGITS)

(* The histogram count a scrape body reports for tuple t, -1 when the body
   has no such sample. *)
BodyHistCount(body, t) ==
    LET idx == {i \in 1..Len(body) : body[i].owner # 0 /\ body[i].kind = "histogram"}
    IN  IF idx = {} THEN -1
        ELSE LET f == body[CHOOSE i \in idx : TRUE]
             IN  IF t \in DOMAIN f.samples THEN f.samples[t].count ELSE -1

(* What a scrape reports of the state the hooks of the attached value write:
   a built-in family f carries the counter's current children, or the
   histogram's current children as gathered. *)
ReportsHooks(f) ==
    IF f.kind = "counter"
    THEN f.samples = Counter
    ELSE /\ DOMAIN f.samples = DOMAIN Histogram
         /\ \A t \in DOMAIN Histogram : f.samples[t] = gather_histogram(Histogram[t])

(* C22: once the application is launched, the value attached as fairing and
   the value mounted as handler hold the same counter, histogram and
   registries, and registry() of either is the same registry; what the
   mounted value's scrape gathers is what a scrape of the attached value
   would gather; every built-in family reports, when it is collected, all
   that the hooks of the attached value have written, and the custom part
   holds the metric the application registered through registry() before it
   cloned the value. *)
C22_ClonesShareState ==
    [][/\ fairing' # 0 =>
            /\ clones'.attached.http_requests_total = clones'.mounted.http_requests_total
            /\ clones'.attached.http_requests_duration_seconds
                  = clones'.mounted.http_requests_duration_seconds
            /\ clones'.attached.rocket_registry = clones'.mounted.rocket_registry
            /\ clones'.attached.custom_registry = clones'.mounted.custom_registry
            /\ registry(clones'.attached) = registry(clones'.mounted)
       /\ \A r \in InFlight : \A r2 \in BagToSet(req') :
             (/\ r.phase \in {"started", "gathering"}
              /\ CopiesIn(r, req') < CopiesIn(r, req)
              /\ CopiesIn(r2, req') > CopiesIn(r2, req)
              /\ IsScrapeRequest(r)) =>
                 IF r.phase = "started"
                 THEN /\ \E c \in registries[clones.attached.rocket_registry].collectors :
                            r2.body = handle_begin(clones.attached, c)
                      /\ ReportsHooks(r2.body[Len(r2.body)])
                      /\ name_counter # <<>> =>
                            \E k \in 1..Len(r2.body) :
                                /\ r2.body[k].name = "name_counter"
                                /\ r2.body[k].samples = name_counter
                 ELSE /\ r2.body = handle_end(clones.attached, r.body)
                      /\ \A k \in 1..Len(r2.body) :
                            (r2.body[k].owner # 0 /\ r2.body[k] # r.body[Len(r.body)])
                                => ReportsHooks(r2.body[k])]_vars

(* A scrape served after a completed GET /hello/foo: the body of the mounted
   value reports the increment and the observation made by the hooks of the
   attached one, and the application's name_counter. *)
C22_Witness ==
    /\ fairing # 0 /\ clones.attached = clone(clones.mounted)
    /\ DoneOf(HelloGet200).timed = 1
    /\ \E b \in Bodies :
          /\ BodyCounter(b, HelloGet200) = 1
          /\ BodyHistCount(b, HelloGet200) = 1
          /\ \E k \in 1..Len(b) :
                b[k].name = "name_counter" /\ b[k].samples = (<<"foo">> :> 1)

(* The relation of the two built-in metrics as they are in memory: the
   histogram has no label tuple the counter lacks and no count above the
   counter's value, and both are equal for a tuple once no hook is between
   its increment and its end and every counted request had a start instant. *)
HistogramWithinCounter ==
    /\ DOMAIN Histogram \subseteq DOMAIN Counter
    /\ \A t \in DOMAIN Histogram : Histogram[t].count <= Counter[t]
    /\ \A t \in DOMAIN Counter :
          (Counting(t) = 0 /\ DoneOf(t).timed = DoneOf(t).n) => HistCount(t) = Counter[t]

(* The same relation within one scrape body. *)
BodyWithinCounter(body) ==
    \A t \in RouteTuples : BodyHistCount(body, t) <= BodyCounter(body, t)

(* C21 as stated: the relation holds in every state and in every scrape
   body, also of a scrape that ran while post-response hooks ran. *)
C21_ScrapeSeesRelation ==
    /\ HistogramWithinCounter
    /\ \A b \in Bodies : BodyWithinCounter(b)

(* C21, amended: the relation holds in every state of the metrics; a scrape
   body never reports more than the metrics hold; a scrape whose gather
   collected the histogram before the counter reports the relation too,
   whatever hooks ran in between.  (A scrape that collected the counter
   first can report a histogram ahead of the counter.) *)
C21_RelationInMemory ==
    /\ [](/\ HistogramWithinCounter
          /\ \A b \in Bodies : \A t \in RouteTuples :
                /\ BodyHistCount(b, t) <= HistCount(t)
                /\ BodyCounter(b, t) <= Count(Counter, t)
                /\ BodyHistCount(b, t) <= Count(Counter, t))
    /\ [][\A r \in InFlight : \A r2 \in BagToSet(req') :
             (/\ r.phase = "gathering"
              /\ r.body[Len(r.body)].kind = "histogram"
              /\ CopiesIn(r, req') < CopiesIn(r, req)
              /\ CopiesIn(r2, req') > CopiesIn(r2, req)) => BodyWithinCounter(r2.body)]_vars

(* A scrape collected the counter, a request was then counted and observed,
   and the scrape collected the histogram: its body reports one observation
   and no request for the tuple. *)
C21_Witness ==
    \E b \in Bodies :
        /\ BodyHistCount(b, HelloGet200) = 1
        /\ BodyCounter(b, HelloGet200) = 0
        /\ Counter[HelloGet200] = 1 /\ Counting(HelloGet200) = 0

(* C23: whatever metrics the caller has registered through registry(), the
   body a scrape of the launched application returns names every metric
   family once: no family of the custom part has the name of a family of
   the built-in part. *)
C23_UniqueFamilies ==
    fairing # 0 =>
        LET body == handle(clones.mounted)
        IN  \A i, j \in 1..Len(body) : body[i].name = body[j].name => i = j

(* The caller's registration of a counter named like the built-in counter
   was accepted, and the scrape of the launched application returns two
   families of that name, the caller's first. *)
C23_Witness ==
    /\ fairing # 0 /\ result = "Ok"
    /\ LET body == handle(clones.mounted)
       IN  \E i, j \in 1..Len(body) :
               /\ i < j
               /\ body[i].name = "rocket_http_requests_total" /\ body[i].owner = 0
               /\ body[j].name = "rocket_http_requests_total" /\ body[j].owner # 0

====
